---------------------------- MODULE Spec2Model ----------------------------
(***************************************************************************)
(* Model of validate.py: the structural audit of a bug-dataset repository. *)
(*                                                                         *)
(* Strings that the program inspects character by character (directory     *)
(* and file names, the text of QuixBugs.txt) are sequences of one-char     *)
(* strings, so that prefix tests, the regular expression and the glob are  *)
(* computed and not assumed.                                               *)
(***************************************************************************)
EXTENDS Integers, Sequences, FiniteSets, TLC

VARIABLES
    repo,           \* the repository on disk: dataset name -> directory
    qfile,          \* QuixBugs.txt in the working directory
    jfile,          \* Export.json in the working directory
    QUIXBUGS_SET,   \* global, validate.py:19
    BUGSWARM_SET,   \* global, validate.py:20
    pc,             \* where validate() stands
    di,             \* index of `dataset` in the loop of line 74
    candidates,     \* the part of `candidates` the loop of line 88 has not yet yielded
    folder,         \* the `folder` the loop of line 88 last yielded (none outside the loop)
    checked,        \* the checks the loop body made on `folder`, in order
    validate_pass,  \* local of validate(), line 66
    output,         \* the lines printed so far
    run,            \* 1 in the first run of validate(), 2 in a repeated run
    output1         \* what the first run printed (kept for the repeated run)

vars == <<repo, qfile, jfile, QUIXBUGS_SET, BUGSWARM_SET, pc, di, candidates,
          folder, checked, validate_pass, output, run, output1>>

-----------------------------------------------------------------------------
(* Bounds of the model.                                                     *)

\* how many candidates beyond its required minimum a dataset may hold
MaxExtra == 1

-----------------------------------------------------------------------------
(* Character strings.                                                       *)

Digits == {"0", "1", "2", "3", "4", "5", "6", "7", "8", "9"}

\* str.startswith
startswith(s, p) ==
    /\ Len(s) >= Len(p)
    /\ \A i \in 1..Len(p) : s[i] = p[i]

\* str.endswith (the tail of the glob 'X*.java')
endswith(s, p) ==
    /\ Len(s) >= Len(p)
    /\ \A i \in 1..Len(p) : s[Len(s) - Len(p) + i] = p[i]

\* validate.py:10-14, in the iteration order of the Enum
Dataset == <<"Defects4J", "QuixBugs", "Bears", "BugSwarm">>

DatasetNames == {Dataset[i] : i \in 1..Len(Dataset)}

\* validate.py:16-17
DEFECTS4J_CATEGORY ==
    << <<"C","h","a","r","t">>,
       <<"C","l","i">>,
       <<"C","l","o","s","u","r","e">>,
       <<"C","o","d","e","c">>,
       <<"C","o","l","l","e","c","t","i","o","n","s">>,
       <<"C","o","m","p","r","e","s","s">>,
       <<"C","s","v">>,
       <<"G","s","o","n">>,
       <<"J","a","c","k","s","o","n","C","o","r","e">>,
       <<"J","a","c","k","s","o","n","D","a","t","a","b","i","n","d">>,
       <<"J","a","c","k","s","o","n","X","m","l">>,
       <<"J","s","o","u","p">>,
       <<"J","x","P","a","t","h">>,
       <<"L","a","n","g">>,
       <<"M","a","t","h">>,
       <<"M","o","c","k","i","t","o">>,
       <<"T","i","m","e">> >>

\* pattern.match(name) for the pattern of line 35: re.match anchors the
\* pattern at the start of the name only; (A|B|...) is tried alternative by
\* alternative, then "_", then \d+ takes one digit or more, and whatever
\* follows the digits is not looked at.
pattern_match(name) ==
    \E k \in 1..Len(DEFECTS4J_CATEGORY) :
        LET c == DEFECTS4J_CATEGORY[k] IN
        /\ startswith(name, c)
        /\ Len(name) >= Len(c) + 2
        /\ name[Len(c) + 1] = "_"
        /\ name[Len(c) + 2] \in Digits

\* the literal of line 40
BearsPrefix == <<"B","e","a","r","s","-">>

\* fnmatch.filter(files, 'Randoop*.java') and 'Evosuite*.java' on a
\* case-sensitive file system: the name starts with the word, ends in
\* ".java", and the two do not overlap ('*' may be empty).
fnmatch_filter(files, word) ==
    {f \in files : /\ startswith(f, word)
                   /\ endswith(f, <<".","j","a","v","a">>)
                   /\ Len(f) >= Len(word) + 5}

RandoopWord == <<"R","a","n","d","o","o","p">>

EvosuiteWord == <<"E","v","o","s","u","i","t","e">>

\* validate.py:47-52; `tree` is a version folder: whether it exists and the
\* names of the files of its subtree (os.walk of a missing path yields nothing)
find_randoop_test_files(tree) ==
    IF tree.exists THEN fnmatch_filter(tree.files, RandoopWord) ELSE {}

\* validate.py:55-60
find_evosuite_test_files(tree) ==
    IF tree.exists THEN fnmatch_filter(tree.files, EvosuiteWord) ELSE {}

-----------------------------------------------------------------------------
(* read_dataset_files: the two reference files.                             *)

NL == "\n"

RECURSIVE FirstNewline(_, _)
\* the index of the first line break of s at or after i, 0 when there is none
FirstNewline(s, i) ==
    IF i > Len(s) THEN 0
    ELSE IF s[i] = NL THEN i
    ELSE FirstNewline(s, i + 1)

RECURSIVE splitlines(_)
\* str.splitlines for texts whose only line break is "\n": the break ends a
\* line, a line may be empty, and a final break opens no further line
splitlines(s) ==
    IF s = <<>> THEN <<>>
    ELSE LET k == FirstNewline(s, 1) IN
         IF k = 0 THEN <<s>>
         ELSE <<SubSeq(s, 1, k - 1)>> \o splitlines(SubSeq(s, k + 1, Len(s)))

Range(seq) == {seq[i] : i \in 1..Len(seq)}

\* line 25: open("QuixBugs.txt") raises when the file is missing, and
\* file.read() raises when its bytes are no text
QuixBugsRaises(qf) == qf.status # "ok"

\* line 26
QuixBugsLines(qf) == Range(splitlines(qf.text))

\* lines 28-30: open raises when the file is missing, json.load when it is
\* no JSON, and bugswarm_bug["image_tag"] when a record has no such key
ExportRaises(jf) ==
    \/ jf.status # "ok"
    \/ \E i \in 1..Len(jf.value) : "image_tag" \notin DOMAIN jf.value[i]

\* line 30
ExportTags(jf) == {jf.value[i].image_tag : i \in 1..Len(jf.value)}

\* read_dataset_files with its errors swallowed (try/except around each file,
\* the set left empty): a reference error is no longer fatal
read_dataset_files_swallow(qf, jf, q0, b0) ==
    [raised |-> FALSE,
     q |-> IF QuixBugsRaises(qf) THEN {} ELSE QuixBugsLines(qf),
     b |-> IF ExportRaises(jf) THEN {} ELSE ExportTags(jf)]

\* validate.py:23-30. QUIXBUGS_SET is assigned before Export.json is opened,
\* BUGSWARM_SET only once the whole comprehension has been evaluated.
read_dataset_files(qf, jf, q0, b0) ==
    IF QuixBugsRaises(qf) THEN [raised |-> TRUE, q |-> q0, b |-> b0]
    ELSE IF ExportRaises(jf) THEN [raised |-> TRUE, q |-> QuixBugsLines(qf), b |-> b0]
    ELSE [raised |-> FALSE, q |-> QuixBugsLines(qf), b |-> ExportTags(jf)]

-----------------------------------------------------------------------------
(* list_bug_candidates.                                                     *)
(*                                                                          *)
(* A dataset directory holds the entries the model spells out (`entries`,   *)
(* each with a name, whether it is a directory, and its content) and `bulk` *)
(* further directories that pass the dataset's rule and are structurally    *)
(* complete: they print nothing, so only their number matters.              *)

\* the membership rule of lines 34-42 for one entry name
rule(dataset, name, qset, bset) ==
    CASE dataset = "Defects4J" -> pattern_match(name)
      [] dataset = "QuixBugs"  -> name \in qset
      [] dataset = "Bears"     -> startswith(name, BearsPrefix)
      [] dataset = "BugSwarm"  -> name \in bset
      [] OTHER                 -> FALSE

\* validate.py:33-44. iterdir() yields the children in arbitrary order, so
\* the list is kept as the collection of its members and the loop of line 88
\* draws the next one from it.
list_bug_candidates(dir, dataset, qset, bset) ==
    IF dataset \notin DatasetNames
    THEN [raised |-> TRUE, named |-> {}, bulk |-> 0]
    ELSE [raised |-> FALSE,
          named  |-> {e \in dir.entries : e.is_dir /\ rule(dataset, e.name, qset, bset)},
          bulk   |-> dir.bulk]

\* len(candidates)
len(cands) == Cardinality(cands.named) + cands.bulk

-----------------------------------------------------------------------------
(* The printed lines. A line is the f-string's fixed text and its fields.   *)

Line(tag, msg, ds, name, n, tail) ==
    [tag |-> tag, msg |-> msg, ds |-> ds, name |-> name, n |-> n, tail |-> tail]

\* line 78
NoFolderLine(ds) == Line("[FAIL]", "No folder", ds, <<>>, 0, "")

\* line 85
MissingLine(ds, n) == Line("[FAIL]", "Missing bugs in", ds, <<>>, n, "")

\* line 90
IncompleteLine(ds, name) == Line("[FAIL]", "Incomplete versions in", ds, name, 0, "")

\* line 94
NoTestLine(ds, name) == Line("[FAIL]", "No failed test file in", ds, name, 0, "")

\* lines 101, 104
NoRandoopLine(ds, name, version) ==
    Line("[FAIL]", "No Randoop test files in", ds, name, 0, version)

\* lines 107, 110
NoEvosuiteLine(ds, name, version) ==
    Line("[FAIL]", "No Evosuite test files in", ds, name, 0, version)

\* lines 117-141
CoverageLine(msg, ds, name) == Line("[FAIL]", msg, ds, name, 0, "")

\* line 145
PassLine == Line("[PASS]", "Validation pass", "", <<>>, 0, "")

-----------------------------------------------------------------------------
(* One iteration of the loop of line 88: the checks on one candidate.       *)

\* validate.py:67-72
dataset_requirements ==
    [ds \in DatasetNames |->
        CASE ds = "Defects4J" -> 68
          [] ds = "QuixBugs"  -> 20
          [] ds = "Bears"     -> 20
          [] ds = "BugSwarm"  -> 20]

\* lines 89-95: both version folders, then test.txt; both are evaluated
Group1(ds, f) ==
    (IF ~(f.bv.exists /\ f.pv.exists) THEN <<IncompleteLine(ds, f.name)>> ELSE <<>>)
    \o (IF ~f.test THEN <<NoTestLine(ds, f.name)>> ELSE <<>>)

\* Group 2 written as an if/elif chain: only the first failing search prints
Group2_first(ds, f) ==
    IF find_randoop_test_files(f.bv) = {}
    THEN <<NoRandoopLine(ds, f.name, "/Buggy-Version")>>
    ELSE IF find_randoop_test_files(f.pv) = {}
    THEN <<NoRandoopLine(ds, f.name, "/Patched-Version")>>
    ELSE IF find_evosuite_test_files(f.bv) = {}
    THEN <<NoEvosuiteLine(ds, f.name, "/Buggy-Version")>>
    ELSE IF find_evosuite_test_files(f.pv) = {}
    THEN <<NoEvosuiteLine(ds, f.name, "/Patched-Version")>>
    ELSE <<>>

\* lines 100-111: the four searches, all evaluated, in this order
Group2(ds, f) ==
    (IF find_randoop_test_files(f.bv) = {}
        THEN <<NoRandoopLine(ds, f.name, "/Buggy-Version")>> ELSE <<>>)
    \o (IF find_randoop_test_files(f.pv) = {}
        THEN <<NoRandoopLine(ds, f.name, "/Patched-Version")>> ELSE <<>>)
    \o (IF find_evosuite_test_files(f.bv) = {}
        THEN <<NoEvosuiteLine(ds, f.name, "/Buggy-Version")>> ELSE <<>>)
    \o (IF find_evosuite_test_files(f.pv) = {}
        THEN <<NoEvosuiteLine(ds, f.name, "/Patched-Version")>> ELSE <<>>)

\* lines 116-142: the paths tested, in order, each with the text it prints
CoverageChecks ==
    << [path |-> "Coverage",                          msg |-> "No coverage folder in"],
       [path |-> "Coverage/Buggy-version-Randoop",    msg |-> "No coverage folder for Randoop in"],
       [path |-> "Coverage/Buggy-version-Evosuite",   msg |-> "No coverage folder for Evosuite in"],
       [path |-> "Coverage/Patched-version-Randoop",  msg |-> "No coverage folder for Randoop in"],
       [path |-> "Coverage/Patched-version-Evosuite", msg |-> "No coverage folder for Evosuite in"],
       [path |-> "Coverage/Buggy-version-All",        msg |-> "No coverage folder for All in"],
       [path |-> "Coverage/Patched-version-All",      msg |-> "No coverage folder for All in"] >>

\* (folder / path).exists() for the paths of CoverageChecks
coverage_exists(f, path) ==
    IF path = "Coverage" THEN f.cov.exists
    ELSE f.cov.exists /\ path \in f.cov.subs

RECURSIVE Group3_all(_, _, _)
\* Group 3 without the return after each line: every missing path prints
Group3_all(ds, f, k) ==
    IF k > Len(CoverageChecks) THEN [lines |-> <<>>, checked |-> <<>>]
    ELSE LET rest == Group3_all(ds, f, k + 1) IN
         [lines   |-> (IF ~coverage_exists(f, CoverageChecks[k].path)
                       THEN <<CoverageLine(CoverageChecks[k].msg, ds, f.name)>>
                       ELSE <<>>) \o rest.lines,
          checked |-> <<CoverageChecks[k].path>> \o rest.checked]

RECURSIVE Group3(_, _, _)
\* lines 116-142 from the k-th test on: each missing path prints its line and
\* returns at once; `checked` lists the paths tested
Group3(ds, f, k) ==
    IF k > Len(CoverageChecks) THEN [lines |-> <<>>, checked |-> <<>>]
    ELSE IF ~coverage_exists(f, CoverageChecks[k].path)
         THEN [lines   |-> <<CoverageLine(CoverageChecks[k].msg, ds, f.name)>>,
               checked |-> <<CoverageChecks[k].path>>]
         ELSE LET rest == Group3(ds, f, k + 1) IN
              [lines   |-> rest.lines,
               checked |-> <<CoverageChecks[k].path>> \o rest.checked]

Group1Checks == <<"versions", "test.txt">>

Group2Checks == <<"Randoop/Buggy-Version", "Randoop/Patched-Version",
                  "Evosuite/Buggy-Version", "Evosuite/Patched-Version">>

\* Group 1 without the return of lines 97-98
AfterGroup1_noreturn(ds, f, vp) ==
    LET g1 == Group1(ds, f) IN
    [lines |-> g1, pass |-> vp /\ g1 = <<>>, returned |-> FALSE,
     checked |-> Group1Checks]

\* lines 89-98: Group 1 and the test of `validate_pass` that follows it
AfterGroup1(ds, f, vp) ==
    LET g1 == Group1(ds, f) IN
    [lines |-> g1, pass |-> vp /\ g1 = <<>>, returned |-> ~(vp /\ g1 = <<>>),
     checked |-> Group1Checks]

\* lines 100-114: Group 2 and the test of `validate_pass` that follows it
AfterGroup2(ds, f, vp) ==
    LET g2 == Group2(ds, f) IN
    [lines |-> g2, pass |-> vp /\ g2 = <<>>, returned |-> ~(vp /\ g2 = <<>>),
     checked |-> Group2Checks]

\* Group 3 with `continue` in place of `return`
AfterGroup3_continue(ds, f, vp) ==
    LET g3 == Group3(ds, f, 1) IN
    [lines |-> g3.lines, pass |-> vp, returned |-> FALSE, checked |-> g3.checked]

\* lines 116-142: a missing coverage folder returns and leaves validate_pass
AfterGroup3(ds, f, vp) ==
    LET g3 == Group3(ds, f, 1) IN
    [lines |-> g3.lines, pass |-> vp, returned |-> g3.lines # <<>>,
     checked |-> g3.checked]

\* lines 89-142, the body of the loop for one folder: what it prints, the
\* value of validate_pass it leaves, whether it returned from validate()
audit(ds, f, vp) ==
    LET a1 == AfterGroup1(ds, f, vp) IN
    IF a1.returned THEN a1
    ELSE LET a2 == AfterGroup2(ds, f, a1.pass) IN
         IF a2.returned
         THEN [a2 EXCEPT !.lines = a1.lines \o a2.lines,
                         !.checked = a1.checked \o a2.checked]
         ELSE LET a3 == AfterGroup3(ds, f, a2.pass) IN
              [a3 EXCEPT !.lines = a1.lines \o a2.lines \o a3.lines,
                         !.checked = a1.checked \o a2.checked \o a3.checked]

-----------------------------------------------------------------------------
(* The repositories and reference files the model runs validate() on.       *)

Str_RandoopTest == <<"R","a","n","d","o","o","p","T","e","s","t",".","j","a","v","a">>

Str_Randoop == <<"R","a","n","d","o","o","p",".","j","a","v","a">>

Str_EvosuiteTest == <<"E","v","o","s","u","i","t","e","T","e","s","t",".","j","a","v","a">>

Str_Main == <<"M","a","i","n",".","j","a","v","a">>

Str_RandoopTxt == <<"R","a","n","d","o","o","p",".","t","x","t">>

\* a version folder: present or not, and the file names of its subtree
Tree(files) == [exists |-> TRUE, files |-> files]

NoTree == [exists |-> FALSE, files |-> {}]

FullTree == Tree({Str_RandoopTest, Str_EvosuiteTest, Str_Main})

NoRandoopTree == Tree({Str_EvosuiteTest, Str_Main, Str_RandoopTxt})

NoEvosuiteTree == Tree({Str_Randoop, Str_Main})

BareTree == Tree({Str_Main})

CoverageSubfolders == {CoverageChecks[k].path : k \in 2..Len(CoverageChecks)}

Cov(subs) == [exists |-> TRUE, subs |-> subs]

NoCov == [exists |-> FALSE, subs |-> {}]

FullCov == Cov(CoverageSubfolders)

\* the content of a candidate folder
Shape(bv, pv, test, cov) == [bv |-> bv, pv |-> pv, test |-> test, cov |-> cov]

Complete == Shape(FullTree, FullTree, TRUE, FullCov)

NoPatched == Shape(FullTree, NoTree, TRUE, FullCov)

NoTestTxt == Shape(FullTree, FullTree, FALSE, FullCov)

NoRandoopBuggy == Shape(NoRandoopTree, FullTree, TRUE, FullCov)

NoCoverage == Shape(FullTree, FullTree, TRUE, NoCov)

\* the shapes a repository may give both of its named candidates
PairShapes == {Complete, NoPatched, NoTestTxt, NoRandoopBuggy, NoCoverage}

Shapes ==
    PairShapes \cup
    { Shape(NoTree, FullTree, TRUE, FullCov),
      Shape(FullTree, NoTree, FALSE, FullCov),
      Shape(NoTree, NoTree, FALSE, NoCov),
      Shape(NoRandoopTree, NoRandoopTree, TRUE, FullCov),
      Shape(FullTree, NoEvosuiteTree, TRUE, FullCov),
      Shape(BareTree, BareTree, TRUE, NoCov),
      Shape(FullTree, FullTree, TRUE, Cov({})),
      Shape(FullTree, FullTree, TRUE, Cov(CoverageSubfolders \ {"Coverage/Buggy-version-Randoop"})),
      Shape(FullTree, FullTree, TRUE,
            Cov(CoverageSubfolders \ {"Coverage/Buggy-version-Evosuite",
                                      "Coverage/Patched-version-Evosuite"})),
      Shape(FullTree, FullTree, TRUE, Cov(CoverageSubfolders \ {"Coverage/Patched-version-All"})) }

\* a directory entry of a dataset folder
Entry(name, is_dir, shape) ==
    [name |-> name, is_dir |-> is_dir, bv |-> shape.bv, pv |-> shape.pv,
     test |-> shape.test, cov |-> shape.cov]

\* one of the `bulk` candidates: its name is not spelled out
BulkFolder == Entry(<<"*">>, TRUE, Complete)

EmptyShape == Shape(NoTree, NoTree, FALSE, NoCov)

\* `folder` before the loop of line 88 has yielded anything
NoFolder == Entry(<<>>, FALSE, EmptyShape)

\* two names per dataset that pass its rule (with the reference files below)
Name1(ds) ==
    CASE ds = "Defects4J" -> <<"L","a","n","g","_","4","2">>
      [] ds = "QuixBugs"  -> <<"g","c","d">>
      [] ds = "Bears"     -> <<"B","e","a","r","s","-","1">>
      [] ds = "BugSwarm"  -> <<"t","-","1">>

Name2(ds) ==
    CASE ds = "Defects4J" -> <<"C","l","i","_","1">>
      [] ds = "QuixBugs"  -> <<"k","t","h">>
      [] ds = "Bears"     -> <<"B","e","a","r","s","-","2">>
      [] ds = "BugSwarm"  -> <<"t","-","2">>

\* a name per dataset that fails its rule
StrayName(ds) ==
    CASE ds = "Defects4J" -> <<"L","a","n","g","4","2">>
      [] ds = "QuixBugs"  -> <<"z","z","z">>
      [] ds = "Bears"     -> <<"B","e","a","r","-","1">>
      [] ds = "BugSwarm"  -> <<"z","z","z">>

\* a dataset folder: missing, a plain file, or a directory
Dir(entries, bulk) == [kind |-> "dir", entries |-> entries, bulk |-> bulk]

AbsentDir == [kind |-> "absent", entries |-> {}, bulk |-> 0]

FileDir == [kind |-> "file", entries |-> {}, bulk |-> 0]

BulkChoices(ds) ==
    {0, 1} \cup ((dataset_requirements[ds] - 1)..(dataset_requirements[ds] + MaxExtra))

EntrySets(ds) ==
    {{}}
    \cup {{Entry(Name1(ds), TRUE, s)} : s \in Shapes}
    \cup {{Entry(Name1(ds), TRUE, s1), Entry(Name2(ds), TRUE, s2)} :
             s1 \in PairShapes, s2 \in PairShapes}
    \cup {{Entry(StrayName(ds), TRUE, EmptyShape)},
          {Entry(Name1(ds), FALSE, EmptyShape)},
          {Entry(Name1(ds), TRUE, Complete), Entry(StrayName(ds), TRUE, EmptyShape),
           Entry(Name2(ds), FALSE, EmptyShape)}}

\* what the dataset the repository varies may be
FocusDirs(ds) ==
    {AbsentDir, FileDir}
    \cup {Dir(es, b) : es \in EntrySets(ds), b \in BulkChoices(ds)}

Conformant(ds) == Dir({}, dataset_requirements[ds])

\* the repositories: one dataset varies freely, those before it are
\* conformant or empty, those after it are conformant
Repos ==
    UNION {
        { [ds \in DatasetNames |->
              IF ds = Dataset[k] THEN focus
              ELSE IF \E j \in 1..(k - 1) : ds = Dataset[j] /\ j \in empties
                   THEN Dir({}, 0)
                   ELSE Conformant(ds)] :
          focus \in FocusDirs(Dataset[k]), empties \in SUBSET (1..(k - 1)) } :
        k \in 1..Len(Dataset) }

Str_gcd_kth == <<"g","c","d",NL,"k","t","h",NL>>

Str_gcd_blank_kth == <<"g","c","d",NL,NL,"k","t","h">>

Str_gcd == <<"g","c","d">>

QFile(status, text) == [status |-> status, text |-> text]

JFile(status, value) == [status |-> status, value |-> value]

GoodQFile == QFile("ok", Str_gcd_kth)

GoodJFile == JFile("ok", << [image_tag |-> <<"t","-","1">>], [image_tag |-> <<"t","-","2">>] >>)

QFiles ==
    {QFile("missing", <<>>), QFile("undecodable", <<>>), GoodQFile,
     QFile("ok", Str_gcd_blank_kth), QFile("ok", Str_gcd), QFile("ok", <<>>)}

JFiles ==
    {JFile("missing", <<>>), JFile("malformed", <<>>), GoodJFile,
     JFile("ok", << [image_tag |-> <<"t","-","1">>], [repo |-> <<"r">>] >>),
     JFile("ok", << [image_tag |-> <<"t","-","2">>] >>),
     JFile("ok", <<>>)}

\* the repositories every pair of reference files is tried on
FileRepos ==
    {[ds \in DatasetNames |-> AbsentDir]}
    \cup { [ds \in DatasetNames |->
               Dir({Entry(Name1(ds), TRUE, s1), Entry(Name2(ds), TRUE, s2)},
                   dataset_requirements[ds] - 1)] :
           s1 \in {Complete, NoTestTxt}, s2 \in {Complete, NoCoverage} }

-----------------------------------------------------------------------------
(* validate().                                                              *)

NoCandidates == [raised |-> FALSE, named |-> {}, bulk |-> 0]

\* enter_dataset with the count compared by <= in line 84
enter_dataset_le(dir, ds, qset, bset, vp) ==
    IF dir.kind = "absent"
    THEN [lines |-> <<NoFolderLine(ds)>>, pass |-> vp, next |-> "halted",
          cands |-> NoCandidates]
    ELSE IF dir.kind = "file"
    THEN [lines |-> <<>>, pass |-> vp, next |-> "error", cands |-> NoCandidates]
    ELSE LET cands    == list_bug_candidates(dir, ds, qset, bset)
             min_bugs == dataset_requirements[ds]
         IN  IF cands.raised
             THEN [lines |-> <<>>, pass |-> vp, next |-> "error", cands |-> NoCandidates]
             ELSE IF len(cands) <= min_bugs
             THEN [lines |-> <<MissingLine(ds, min_bugs - len(cands))>>,
                   pass |-> FALSE, next |-> "folder", cands |-> cands]
             ELSE [lines |-> <<>>, pass |-> vp, next |-> "folder", cands |-> cands]

\* enter_dataset with `continue` in place of the `return` of line 79
enter_dataset_continue(dir, ds, qset, bset, vp) ==
    IF dir.kind = "absent"
    THEN [lines |-> <<NoFolderLine(ds)>>, pass |-> vp, next |-> "folder",
          cands |-> NoCandidates]
    ELSE IF dir.kind = "file"
    THEN [lines |-> <<>>, pass |-> vp, next |-> "error", cands |-> NoCandidates]
    ELSE LET cands    == list_bug_candidates(dir, ds, qset, bset)
             min_bugs == dataset_requirements[ds]
         IN  IF cands.raised
             THEN [lines |-> <<>>, pass |-> vp, next |-> "error", cands |-> NoCandidates]
             ELSE IF len(cands) < min_bugs
             THEN [lines |-> <<MissingLine(ds, min_bugs - len(cands))>>,
                   pass |-> FALSE, next |-> "folder", cands |-> cands]
             ELSE [lines |-> <<>>, pass |-> vp, next |-> "folder", cands |-> cands]

\* lines 75-86 for one dataset: the root folder, the listing, the count
enter_dataset(dir, ds, qset, bset, vp) ==
    IF dir.kind = "absent"
    THEN [lines |-> <<NoFolderLine(ds)>>, pass |-> vp, next |-> "halted",
          cands |-> NoCandidates]
    ELSE IF dir.kind = "file"
    THEN [lines |-> <<>>, pass |-> vp, next |-> "error", cands |-> NoCandidates]
    ELSE LET cands    == list_bug_candidates(dir, ds, qset, bset)
             min_bugs == dataset_requirements[ds]
         IN  IF cands.raised
             THEN [lines |-> <<>>, pass |-> vp, next |-> "error", cands |-> NoCandidates]
             ELSE IF len(cands) < min_bugs
             THEN [lines |-> <<MissingLine(ds, min_bugs - len(cands))>>,
                   pass |-> FALSE, next |-> "folder", cands |-> cands]
             ELSE [lines |-> <<>>, pass |-> vp, next |-> "folder", cands |-> cands]

\* the final print without its `if validate_pass`
finish_always(vp) == <<PassLine>>

\* lines 144-145
finish(vp) == IF vp THEN <<PassLine>> ELSE <<>>

Init ==
    /\ \/ repo \in Repos /\ qfile = GoodQFile /\ jfile = GoodJFile
       \/ repo \in FileRepos /\ qfile \in QFiles /\ jfile \in JFiles
    /\ QUIXBUGS_SET = {}
    /\ BUGSWARM_SET = {}
    /\ pc = "start"
    /\ di = 1
    /\ candidates = NoCandidates
    /\ folder = NoFolder
    /\ checked = <<>>
    /\ validate_pass = TRUE
    /\ output = <<>>
    /\ run = 1
    /\ output1 = <<>>

\* lines 64-66
ReadDatasetFiles ==
    /\ pc = "start"
    /\ LET r == read_dataset_files(qfile, jfile, QUIXBUGS_SET, BUGSWARM_SET) IN
       /\ QUIXBUGS_SET' = r.q
       /\ BUGSWARM_SET' = r.b
       /\ pc' = IF r.raised THEN "error" ELSE "dataset"
    /\ validate_pass' = TRUE
    /\ di' = 1
    /\ UNCHANGED <<repo, qfile, jfile, candidates, folder, checked, output, run, output1>>

\* lines 74-86: the next dataset of the loop
NextDataset ==
    /\ pc = "dataset"
    /\ di <= Len(Dataset)
    /\ LET r == enter_dataset(repo[Dataset[di]], Dataset[di],
                              QUIXBUGS_SET, BUGSWARM_SET, validate_pass) IN
       /\ output' = output \o r.lines
       /\ validate_pass' = r.pass
       /\ candidates' = r.cands
       /\ pc' = r.next
    /\ folder' = NoFolder
    /\ checked' = <<>>
    /\ UNCHANGED <<repo, qfile, jfile, QUIXBUGS_SET, BUGSWARM_SET, di, run, output1>>

\* lines 88-142: the loop yields the next folder, in whatever order the
\* listing has, and the body runs on it
NextFolder ==
    /\ pc = "folder"
    /\ \E f \in candidates.named \cup (IF candidates.bulk > 0 THEN {BulkFolder} ELSE {}) :
          LET a == audit(Dataset[di], f, validate_pass) IN
          /\ candidates' = IF f = BulkFolder
                           THEN [candidates EXCEPT !.bulk = @ - 1]
                           ELSE [candidates EXCEPT !.named = @ \ {f}]
          /\ folder' = f
          /\ checked' = a.checked
          /\ output' = output \o a.lines
          /\ validate_pass' = a.pass
          /\ pc' = IF a.returned THEN "halted" ELSE "folder"
    /\ UNCHANGED <<repo, qfile, jfile, QUIXBUGS_SET, BUGSWARM_SET, di, run, output1>>

\* line 88 with `candidates` exhausted: back to line 74
EndDataset ==
    /\ pc = "folder"
    /\ len(candidates) = 0
    /\ di' = di + 1
    /\ pc' = "dataset"
    /\ folder' = NoFolder
    /\ checked' = <<>>
    /\ UNCHANGED <<repo, qfile, jfile, QUIXBUGS_SET, BUGSWARM_SET, candidates,
                   validate_pass, output, run, output1>>

\* lines 144-145, after the last dataset
Finish ==
    /\ pc = "dataset"
    /\ di > Len(Dataset)
    /\ output' = output \o finish(validate_pass)
    /\ pc' = "done"
    /\ UNCHANGED <<repo, qfile, jfile, QUIXBUGS_SET, BUGSWARM_SET, di, candidates, folder,
                   checked, validate_pass, run, output1>>

Next == ReadDatasetFiles \/ NextDataset \/ NextFolder \/ EndDataset \/ Finish

Spec == Init /\ [][Next]_vars

-----------------------------------------------------------------------------
(* A second run of validate() on the same repository and reference files,   *)
(* in a new process: the listing order of each directory is drawn again.    *)

Terminated == pc \in {"done", "halted", "error"}

Rerun ==
    /\ Terminated
    /\ run = 1
    /\ run' = 2
    /\ output1' = output
    /\ output' = <<>>
    /\ QUIXBUGS_SET' = {}
    /\ BUGSWARM_SET' = {}
    /\ pc' = "start"
    /\ di' = 1
    /\ candidates' = NoCandidates
    /\ folder' = NoFolder
    /\ checked' = <<>>
    /\ validate_pass' = TRUE
    /\ UNCHANGED <<repo, qfile, jfile>>

TwiceRepos ==
    { [ds \in DatasetNames |-> IF ds = Dataset[1] THEN focus ELSE Conformant(ds)] :
      focus \in FocusDirs(Dataset[1]) }

InitTwice ==
    /\ Init
    /\ repo \in TwiceRepos \cup FileRepos

NextTwice == Next \/ Rerun

SpecTwice == InitTwice /\ [][NextTwice]_vars

-----------------------------------------------------------------------------
(* list_bug_candidates on its own: one entry, named from a pool that covers *)
(* every way a name can meet or miss a rule.                                *)

ListWords ==
    { <<"L","a","n","g">>, <<"C","l","i">>, <<"F","o","o">>, <<"l","a","n","g">>,
      <<"J","a","c","k","s","o","n","C","o","r","e">>, <<"J","a","c","k","s","o","n">>,
      <<"B","e","a","r","s">>, <<"g","c","d">>, <<"t">>, <<>> }

ListNames ==
    { p \o w \o sep \o d \o t :
        p \in {<<>>, <<"X">>}, w \in ListWords,
        sep \in {<<>>, <<"_">>, <<"-">>},
        d \in {<<>>, <<"1">>, <<"4","2">>},
        t \in {<<>>, <<"x">>, <<"_","b">>} }

InitList ==
    /\ \E n \in ListNames, d \in BOOLEAN :
          repo = [ds \in DatasetNames |-> Dir({Entry(n, d, Complete)}, 0)]
    /\ qfile = GoodQFile
    /\ jfile = GoodJFile
    /\ QUIXBUGS_SET = QuixBugsLines(GoodQFile)
    /\ BUGSWARM_SET = ExportTags(GoodJFile)
    /\ pc = "list"
    /\ di \in 1..Len(Dataset)
    /\ candidates = NoCandidates
    /\ folder = NoFolder
    /\ checked = <<>>
    /\ validate_pass = TRUE
    /\ output = <<>>
    /\ run = 1
    /\ output1 = <<>>

\* line 81
ListCandidates ==
    /\ pc = "list"
    /\ candidates' = list_bug_candidates(repo[Dataset[di]], Dataset[di],
                                         QUIXBUGS_SET, BUGSWARM_SET)
    /\ pc' = "listed"
    /\ UNCHANGED <<repo, qfile, jfile, QUIXBUGS_SET, BUGSWARM_SET, di, folder, checked,
                   validate_pass, output, run, output1>>

NextList == ListCandidates

SpecList == InitList /\ [][NextList]_vars

-----------------------------------------------------------------------------
(* Vocabulary of the properties. These describe the repository and the      *)
(* output; none of them is part of the program.                             *)

IsFail(l) == l.tag = "[FAIL]"

IsShortfall(l) == IsFail(l) /\ l.msg = "Missing bugs in"

\* the printed lines that name candidate `name` of dataset `ds`
LinesOf(ds, name) == SelectSeq(output, LAMBDA l : l.ds = ds /\ l.name = name)

Last(seq) == seq[Len(seq)]

\* the reference sets the two files hold, when both can be read
RefsReadable ==
    /\ qfile.status = "ok"
    /\ jfile.status = "ok"
    /\ \A i \in 1..Len(jfile.value) : "image_tag" \in DOMAIN jfile.value[i]

\* the candidates of dataset ds, as the program lists them
Listed(ds) == list_bug_candidates(repo[ds], ds, QuixBugsLines(qfile), ExportTags(jfile))

HasFile(tree, word) == tree.exists /\ fnmatch_filter(tree.files, word) # {}

VersionsAndTest(f) == f.bv.exists /\ f.pv.exists /\ f.test

AllTestFiles(f) ==
    /\ HasFile(f.bv, RandoopWord) /\ HasFile(f.pv, RandoopWord)
    /\ HasFile(f.bv, EvosuiteWord) /\ HasFile(f.pv, EvosuiteWord)

AllCoverage(f) == f.cov.exists /\ CoverageSubfolders \subseteq f.cov.subs

StructurallyComplete(f) == VersionsAndTest(f) /\ AllTestFiles(f) /\ AllCoverage(f)

FullyConformant ==
    /\ RefsReadable
    /\ \A ds \in DatasetNames :
          /\ repo[ds].kind = "dir"
          /\ len(Listed(ds)) >= dataset_requirements[ds]
          /\ \A e \in Listed(ds).named : StructurallyComplete(e)

\* the loop body has run on `folder`, a spelled-out candidate
Audited == folder # NoFolder /\ folder # BulkFolder

\* no shortfall was recorded before the loop reached `folder`
NoShortfallSoFar == \A i \in 1..Len(output) : ~IsShortfall(output[i])

ThisDataset == Dataset[di]

-----------------------------------------------------------------------------
(* C1. A fully conformant repository (every root folder present, every      *)
(* dataset at or above its minimum, every candidate structurally complete)  *)
(* never prints a [FAIL] line, and the run ends with the single line        *)
(* "[PASS] Validation pass".                                                *)
C1_ConformantPasses ==
    FullyConformant =>
        /\ \A i \in 1..Len(output) : ~IsFail(output[i])
        /\ pc \notin {"halted", "error"}
        /\ pc = "done" => output = <<PassLine>>

C1_Witness ==
    /\ FullyConformant
    /\ pc = "done"
    /\ output = <<PassLine>>
    /\ \E ds \in DatasetNames :
          /\ Listed(ds).named # {}
          /\ len(Listed(ds)) = dataset_requirements[ds]

(* C2. As claimed: a shortfall alone is not fatal, so a dataset below its   *)
(* minimum whose candidates are all structurally complete is audited to its *)
(* last candidate and the run goes on; the run never returns inside it.     *)
C2_ShortfallNotFatal ==
    \A ds \in DatasetNames :
        ( /\ RefsReadable
          /\ ds = ThisDataset
          /\ repo[ds].kind = "dir"
          /\ len(Listed(ds)) < dataset_requirements[ds]
          /\ \A e \in Listed(ds).named : StructurallyComplete(e) )
        => pc # "halted"

(* C3, as claimed: when the run returns at a missing root folder, its whole *)
(* output is the one line "[FAIL] No <dataset> folder".                     *)
C3_ExactlyOneDiagnostic ==
    (pc = "halted" /\ repo[ThisDataset].kind = "absent")
        => output = <<NoFolderLine(ThisDataset)>>

(* C3, amended: a missing root folder ends the run at that dataset: the     *)
(* check prints one line, "[FAIL] No <dataset> folder", which is the last   *)
(* line of the output; no candidate of the dataset and no later dataset is  *)
(* processed, no [PASS] line is printed, and the only lines before it are   *)
(* shortfall lines of earlier datasets.                                     *)
C3_MissingRootHalts ==
    \A k \in 1..Len(Dataset) :
        repo[Dataset[k]].kind = "absent" =>
            /\ di <= k
            /\ pc # "done"
            /\ (di = k /\ pc \in {"folder", "halted"}) =>
                  /\ pc = "halted"
                  /\ candidates = NoCandidates
                  /\ folder = NoFolder
                  /\ output # <<>>
                  /\ Last(output) = NoFolderLine(Dataset[k])
                  /\ \A i \in 1..(Len(output) - 1) :
                        /\ IsShortfall(output[i])
                        /\ \E j \in 1..(k - 1) : output[i].ds = Dataset[j]

C3_Witness ==
    /\ pc = "halted"
    /\ di = 3
    /\ repo[ThisDataset].kind = "absent"
    /\ Len(output) = 2

(* C4. A candidate that lacks only Patched-Version gets exactly one line,   *)
(* "[FAIL] Incomplete versions in <dataset>-<candidate>", the last line of  *)
(* the output; only the Group 1 checks are made on it and the run returns.  *)
C4_MissingPatchedHalts ==
    (Audited /\ folder.bv.exists /\ ~folder.pv.exists /\ folder.test) =>
        /\ pc = "halted"
        /\ checked = Group1Checks
        /\ LinesOf(ThisDataset, folder.name) = <<IncompleteLine(ThisDataset, folder.name)>>
        /\ Last(output) = IncompleteLine(ThisDataset, folder.name)

C4_Witness ==
    /\ Audited /\ folder.bv.exists /\ ~folder.pv.exists /\ folder.test
    /\ pc = "halted"
    /\ candidates.named # {}
    /\ di = 2

-----------------------------------------------------------------------------
\* the four Group 2 lines of a candidate, in the order of the checks, each
\* with whether the candidate lacks what it reports
TestFileLines(ds, f) ==
    << [line |-> NoRandoopLine(ds, f.name, "/Buggy-Version"),
        lacks |-> ~HasFile(f.bv, RandoopWord)],
       [line |-> NoRandoopLine(ds, f.name, "/Patched-Version"),
        lacks |-> ~HasFile(f.pv, RandoopWord)],
       [line |-> NoEvosuiteLine(ds, f.name, "/Buggy-Version"),
        lacks |-> ~HasFile(f.bv, EvosuiteWord)],
       [line |-> NoEvosuiteLine(ds, f.name, "/Patched-Version"),
        lacks |-> ~HasFile(f.pv, EvosuiteWord)] >>

LackingLines(ds, f) ==
    LET sel == SelectSeq(TestFileLines(ds, f), LAMBDA r : r.lacks)
    IN  [i \in 1..Len(sel) |-> sel[i].line]

\* the loop reached `folder` with no failure recorded and Group 1 found
\* nothing missing: the candidate passed Group 1
PassedGroup1 == Audited /\ NoShortfallSoFar /\ VersionsAndTest(folder)

(* C5. On a candidate that passed Group 1 the four test-file checks are all *)
(* made, in the order Randoop/Buggy, Randoop/Patched, Evosuite/Buggy,       *)
(* Evosuite/Patched; each failing one prints its own line, in that order;   *)
(* if any failed the run returns after the fourth with no coverage check.   *)
(* With no Randoop file under Buggy-Version the first line of the candidate *)
(* is the missing-Randoop line for Buggy-Version and the run has returned.  *)
C5_TestFileGroup ==
    PassedGroup1 =>
        /\ Len(checked) >= 6
        /\ SubSeq(checked, 1, 6) = Group1Checks \o Group2Checks
        /\ ~AllTestFiles(folder) =>
              /\ pc = "halted"
              /\ Len(checked) = 6
              /\ LinesOf(ThisDataset, folder.name) = LackingLines(ThisDataset, folder)
              /\ Last(output) = Last(LackingLines(ThisDataset, folder))
        /\ ~HasFile(folder.bv, RandoopWord) =>
              /\ pc = "halted"
              /\ LinesOf(ThisDataset, folder.name)[1]
                    = NoRandoopLine(ThisDataset, folder.name, "/Buggy-Version")

C5_Witness ==
    /\ PassedGroup1
    /\ ~HasFile(folder.bv, RandoopWord)
    /\ ~HasFile(folder.pv, RandoopWord)
    /\ HasFile(folder.pv, EvosuiteWord)
    /\ pc = "halted"
    /\ Len(LinesOf(ThisDataset, folder.name)) = 2

\* the coverage paths in the order the claim gives them
CoverageOrder ==
    <<"Coverage", "Coverage/Buggy-version-Randoop", "Coverage/Buggy-version-Evosuite",
      "Coverage/Patched-version-Randoop", "Coverage/Patched-version-Evosuite",
      "Coverage/Buggy-version-All", "Coverage/Patched-version-All">>

MissingCoverage(f) ==
    {k \in 1..Len(CoverageOrder) :
        IF k = 1 THEN ~f.cov.exists
        ELSE ~(f.cov.exists /\ CoverageOrder[k] \in f.cov.subs)}

Min(S) == CHOOSE x \in S : \A y \in S : x <= y

PassedGroup2 == PassedGroup1 /\ AllTestFiles(folder)

(* C6. On a candidate that passed Groups 1 and 2 the coverage paths are     *)
(* tested one at a time in the order Coverage, Buggy-version-Randoop,       *)
(* Buggy-version-Evosuite, Patched-version-Randoop,                         *)
(* Patched-version-Evosuite, Buggy-version-All, Patched-version-All. The    *)
(* first missing one prints the candidate's only line and the run returns:  *)
(* no later path is tested and no [PASS] line is printed, however many      *)
(* paths are missing. With none missing all seven are tested and the loop   *)
(* goes on.                                                                 *)
C6_CoverageFirstMissing ==
    PassedGroup2 =>
        LET miss == MissingCoverage(folder) IN
        IF miss = {}
        THEN /\ checked = Group1Checks \o Group2Checks \o CoverageOrder
             /\ LinesOf(ThisDataset, folder.name) = <<>>
             /\ pc = "folder"
        ELSE /\ checked = Group1Checks \o Group2Checks \o SubSeq(CoverageOrder, 1, Min(miss))
             /\ Len(LinesOf(ThisDataset, folder.name)) = 1
             /\ Last(output) = CoverageLine(CoverageChecks[Min(miss)].msg,
                                            ThisDataset, folder.name)
             /\ Last(output) = LinesOf(ThisDataset, folder.name)[1]
             /\ pc = "halted"
             /\ \A i \in 1..Len(output) : output[i] # PassLine

C6_Witness ==
    /\ PassedGroup2
    /\ Cardinality(MissingCoverage(folder)) = 2
    /\ folder.cov.exists
    /\ pc = "halted"
    /\ candidates.bulk > 0

(* C7, as claimed: for Defects4J, list_bug_candidates returns an entry      *)
(* exactly when it is a directory whose whole name is a category, "_" and   *)
(* one or more digits.                                                      *)
C7_WholeNameMatches ==
    (pc = "listed" /\ ThisDataset = "Defects4J") =>
        \A e \in repo["Defects4J"].entries :
            e \in candidates.named <=>
                /\ e.is_dir
                /\ \E k \in 1..Len(DEFECTS4J_CATEGORY) :
                      LET c == DEFECTS4J_CATEGORY[k] IN
                      /\ startswith(e.name, c \o <<"_">>)
                      /\ Len(e.name) >= Len(c) + 2
                      /\ \A i \in (Len(c) + 2)..Len(e.name) : e.name[i] \in Digits

(* C8, as claimed: a second run on the same repository and reference files  *)
(* prints what the first run printed, whatever the listing order.           *)
C8_SameOutput ==
    (run = 2 /\ Terminated) => output = output1

(* C9. When a reference file is missing or unreadable, or an Export.json    *)
(* record has no "image_tag", the run ends with an error in the loading     *)
(* step: nothing is printed and no dataset folder or candidate is looked at.*)
C9_ReferenceErrorIsFatal ==
    ~RefsReadable =>
        /\ pc \in {"start", "error"}
        /\ output = <<>>
        /\ di = 1
        /\ candidates = NoCandidates
        /\ folder = NoFolder
        /\ checked = <<>>

C9_Witness ==
    /\ pc = "error"
    /\ qfile.status = "ok"
    /\ jfile.status = "ok"
    /\ ~RefsReadable
    /\ \A ds \in DatasetNames : repo[ds].kind = "dir"

(* C10. A run that returns has printed something; its output is either the  *)
(* single line "[PASS] Validation pass" or [FAIL] lines only; [PASS] is     *)
(* printed exactly when no [FAIL] line was; an early return has always      *)
(* printed a [FAIL] line.                                                   *)
C10_PassFailExclusive ==
    /\ (\E i \in 1..Len(output) : output[i] = PassLine) =>
          (output = <<PassLine>> /\ pc = "done")
    /\ \A i \in 1..Len(output) : output[i] = PassLine \/ IsFail(output[i])
    /\ pc \in {"done", "halted"} => output # <<>>
    /\ pc = "halted" => IsFail(Last(output))
    /\ pc = "done" =>
          ((\E i \in 1..Len(output) : output[i] = PassLine)
              <=> ~(\E i \in 1..Len(output) : IsFail(output[i])))

C10_Witness ==
    /\ pc = "done"
    /\ Len(output) = 2
    /\ \A i \in 1..Len(output) : IsShortfall(output[i])

=============================================================================
